---- MODULE Spec2Model ----
(***************************************************************************)
(* Model of the deferred-version plugin commands:                          *)
(*   - VersionApplyCommand.execute            (`yarn version apply`)       *)
(*   - VersionCheckCommand.executeInteractive (`yarn version check`)       *)
(*   - getRelevancy / useReleases / App       (the interactive form)       *)
(* The helpers of ../versionUtils are not part of the sources at hand and  *)
(* are modelled from their documented contract.                            *)
(***************************************************************************)
EXTENDS Integers, Sequences, FiniteSets, TLC

VARIABLES
  \* ---- VersionApplyCommand -------------------------------------------
  applyPc,        \* position inside VersionApplyCommand.execute
  dryRun,         \* this.dryRun
  prereleaseOpt,  \* this.prerelease as parsed from the command line
  prerelease,     \* the local `prerelease` of the report callback
  allReleases,    \* the local `allReleases`
  intentRecords,  \* the on-disk intent records (workspace -> decision)
  diskBefore,     \* the on-disk intent records when the run started
  report,         \* the report object handed to the StreamReport callback
  reportErrors,   \* number of errors the report has recorded
  applyExit,      \* value returned by execute (applyReport.exitCode())
  \* ---- shared by the two commands ------------------------------------
  workspace,      \* the `workspace` Project.find returned
  calls,          \* the external calls made so far, in order
  thrown,         \* the error that escaped the command, if any
  \* ---- VersionCheckCommand -------------------------------------------
  checkPc,        \* position inside executeInteractive
  project,        \* project.workspaces dependency graph: ws -> its dependencies
  versionFile,    \* what openVersionFile returned
  loadedReleases, \* versionFile.releases as openVersionFile returned it
  releases,       \* React state of useReleases
  focus,          \* React state `focus` of App
  decisions,      \* what renderForm resolved to
  checkExit,      \* value returned by executeInteractive
  \* ---- one evaluation of getRelevancy, pass by pass --------------------
  relPc,          \* "idle" | "loop" | "done"
  relevantWorkspaces,
  relevantReleases,
  relPasses,      \* iterations of the while(true) loop completed
  relAdded,       \* workspaces each completed pass added, in order
  \* ---- one Undecided entry of the form --------------------------------
  undecidedPc,    \* "idle" | "render" | "shown" | "threw"
  manifest,       \* workspace.manifest: raw.stableVersion and version
  undecidedDecision, \* the `decision` prop of the entry
  currentVersion, \* the local `currentVersion`
  nextVersion     \* the text rendered as the next version

applyVars == <<applyPc, dryRun, prereleaseOpt, prerelease, allReleases,
               intentRecords, diskBefore, report, reportErrors, applyExit>>
checkVars == <<checkPc, project, versionFile, loadedReleases, releases, focus,
               decisions, checkExit>>
relVars == <<relPc, relevantWorkspaces, relevantReleases, relPasses, relAdded>>
undecidedVars == <<undecidedPc, manifest, undecidedDecision, currentVersion, nextVersion>>
vars == <<applyVars, workspace, calls, thrown, checkVars, relVars, undecidedVars>>

----------------------------------------------------------------------------
\* Bounds of the model

\* |focus| never exceeds this in the explored runs
MaxFocus == 1
\* most entries a loaded VersionFile carries in its releases map
MaxLoaded == 1
\* most intent records on disk at the start of an apply run
MaxRecords == 2

Workspaces == {"A", "B", "C"}

----------------------------------------------------------------------------
\* versionUtils.Decision

UNDECIDED == "undecided"
DECLINE == "decline"
PATCH == "patch"
MINOR == "minor"
MAJOR == "major"

\* an explicit version string, as a decision
ExplicitVersion == "2.0.0"

Decisions == {UNDECIDED, DECLINE, PATCH, MINOR, MAJOR, ExplicitVersion}

\* The `strategies` array of the Undecided component
strategies == <<UNDECIDED, DECLINE, PATCH, MINOR, MAJOR>>

Range(s) == {s[i] : i \in DOMAIN s}

\* versionUtils.Releases: Map<Workspace, Decision> with the values in D
ReleasesOver(D) == UNION {[S -> D] : S \in SUBSET Workspaces}

EmptyMap == [w \in {} |-> UNDECIDED]

\* Map.prototype.set / Map.prototype.delete on a copy
MapSet(m, k, v) == [x \in (DOMAIN m) \cup {k} |-> IF x = k THEN v ELSE m[x]]
MapDelete(m, k) == [x \in (DOMAIN m) \ {k} |-> m[x]]
Restrict(m, S) == [x \in (DOMAIN m) \cap S |-> m[x]]

NoValue == [kind |-> "none"]

\* what renderForm resolves to: undefined, or the submitted Releases map
Pending == [kind |-> "pending", value |-> EmptyMap]
Undefined == [kind |-> "undefined", value |-> EmptyMap]
Finalized(m) == [kind |-> "map", value |-> m]

----------------------------------------------------------------------------
\* Values of the command-line options

\* Option.String('--prerelease', {tolerateBoolean: true}): undefined when the
\* option is absent, a boolean for the bare flag, a string otherwise
OptAbsent == [type |-> "undefined", b |-> FALSE, s |-> ""]
OptBool(b) == [type |-> "boolean", b |-> b, s |-> ""]
OptString(s) == [type |-> "string", b |-> FALSE, s |-> s]

PrereleaseOptions ==
  {OptAbsent, OptBool(TRUE), OptBool(FALSE), OptString(""), OptString("beta.%n")}

\* JavaScript truthiness of an option value
Truthy(opt) ==
  \/ opt.type = "boolean" /\ opt.b
  \/ opt.type = "string" /\ opt.s # ""

Null == [null |-> TRUE, id |-> ""]
Identifier(s) == [null |-> FALSE, id |-> s]

\* the typeof test of line 63 left out: the option's string value is always used
PrereleaseIdentifier_NoBooleanTest(opt) ==
  IF Truthy(opt) THEN Identifier(opt.s) ELSE Null

\* this.prerelease ? (typeof this.prerelease !== 'boolean' ? this.prerelease : 'rc.%n') : null
PrereleaseIdentifier(opt) ==
  IF Truthy(opt)
    THEN (IF opt.type # "boolean" THEN Identifier(opt.s) ELSE Identifier("rc.%n"))
    ELSE Null

\* !prerelease
NotPrerelease(p) == p.null \/ p.id = ""

----------------------------------------------------------------------------
\* Versions and the semver library, as far as the Undecided entry uses it

\* largest major, minor or patch number of a manifest version
MaxPart == 1

\* prerelease tags a manifest version can carry; <<>> is none
PrereleaseTags == {<<>>, <<"rc", "1">>}

\* a version string major.minor.patch[-prerelease], held by its components
Versions ==
  [null : {FALSE}, major : 0..MaxPart, minor : 0..MaxPart, patch : 0..MaxPart,
   prerelease : PrereleaseTags]

\* the null of `manifest.version` / the undefined of `raw.stableVersion`
NullVersion ==
  [null |-> TRUE, major |-> 0, minor |-> 0, patch |-> 0, prerelease |-> <<>>]

\* workspace.manifest: raw.stableVersion (may be missing) and version (may be null)
Manifests ==
  [stableVersion : Versions \cup {NullVersion}, version : Versions \cup {NullVersion}]

\* SemVer.format(): the version string
RECURSIVE JoinDots(_)
JoinDots(ids) ==
  IF Len(ids) = 0 THEN ""
  ELSE IF Len(ids) = 1 THEN ids[1]
  ELSE ids[1] \o "." \o JoinDots(Tail(ids))

Format(v) ==
  ToString(v.major) \o "." \o ToString(v.minor) \o "." \o ToString(v.patch) \o
    (IF Len(v.prerelease) > 0 THEN "-" \o JoinDots(v.prerelease) ELSE "")

\* semver.prerelease(version) !== null
semverPrerelease(v) == Len(v.prerelease) > 0

\* semver.valid(decision): truthy for a version string, null for a keyword
semverValid(decision) == decision = ExplicitVersion

\* semver.inc(version, release): the incremented version, null when release
\* is not an increment keyword
semverInc(v, release) ==
  IF release = MAJOR
    THEN [v EXCEPT !.major = IF v.minor # 0 \/ v.patch # 0 \/ Len(v.prerelease) = 0
                               THEN @ + 1 ELSE @,
                   !.minor = 0, !.patch = 0, !.prerelease = <<>>]
  ELSE IF release = MINOR
    THEN [v EXCEPT !.minor = IF v.patch # 0 \/ Len(v.prerelease) = 0
                               THEN @ + 1 ELSE @,
                   !.patch = 0, !.prerelease = <<>>]
  ELSE IF release = PATCH
    THEN [v EXCEPT !.patch = IF Len(v.prerelease) = 0 THEN @ + 1 ELSE @,
                   !.prerelease = <<>>]
  ELSE NullVersion

\* a version string as React renders it; null renders as nothing
Rendered(v) == IF v.null THEN "" ELSE Format(v)

\* the semver.valid test of line 264 left out: every decision goes to semver.inc
renderNextVersion_NoValidTest(current, decision) ==
  IF decision = UNDECIDED THEN Rendered(current)
  ELSE IF decision = DECLINE THEN Rendered(current)
  ELSE Rendered(semverInc(current, decision))

\* lines 255-269: the text shown as the next version
renderNextVersion(current, decision) ==
  IF decision = UNDECIDED THEN Rendered(current)
  ELSE IF decision = DECLINE THEN Rendered(current)
  ELSE IF semverValid(decision) THEN decision
  ELSE Rendered(semverInc(current, decision))

\* useListInput(decision, strategies, {minus: 'left', plus: 'right'}): the
\* strategy a key press selects, wrapping around the list
IndexOf(seq, value) ==
  IF \E i \in DOMAIN seq : seq[i] = value
    THEN (CHOOSE i \in DOMAIN seq : seq[i] = value) - 1
    ELSE -1

useListInput(decision, key) ==
  LET index == IndexOf(strategies, decision)
      n == Len(strategies)
  IN IF key = "left"
       THEN strategies[((n + index - 1) % n) + 1]
       ELSE strategies[((index + 1) % n) + 1]

----------------------------------------------------------------------------
\* versionUtils, as far as the apply command uses it

\* decisions an intent record on disk can hold
RecordDecisions == {DECLINE, MINOR, ExplicitVersion}

IntentRecordStates ==
  {m \in ReleasesOver(RecordDecisions) : Cardinality(DOMAIN m) <= MaxRecords}

\* resolveVersionFiles(project, {prerelease}): the merge of every intent
\* record; under prerelease the bumps come back as explicit versions
resolveVersionFiles(records, p) ==
  IF p.null
    THEN records
    ELSE [w \in DOMAIN records |->
            IF records[w] = DECLINE THEN DECLINE ELSE ExplicitVersion]

\* what a failed clearVersionFiles can leave behind
PartiallyCleared(records) == {Restrict(records, S) : S \in SUBSET (DOMAIN records)}

\* one external call: what was called, the report it was given (if any) and
\* whether it threw
Call(op, r) == [op |-> op, report |-> r, threw |-> FALSE]
CallThrew(op, r) == [op |-> op, report |-> r, threw |-> TRUE]
NoReport == "none"
Reports == {"report1", "report2"}

----------------------------------------------------------------------------
\* VersionApplyCommand.execute

CheckIdle ==
  /\ checkPc = "idle"
  /\ project = [w \in Workspaces |-> {}]
  /\ versionFile = NoValue
  /\ loadedReleases = EmptyMap
  /\ releases = EmptyMap
  /\ focus = 0
  /\ decisions = Pending
  /\ checkExit = "pending"

RelIdle ==
  /\ relPc = "idle"
  /\ relevantWorkspaces = {}
  /\ relevantReleases = EmptyMap
  /\ relPasses = 0
  /\ relAdded = <<>>

UndecidedIdle ==
  /\ undecidedPc = "idle"
  /\ manifest = [stableVersion |-> NullVersion, version |-> NullVersion]
  /\ undecidedDecision = UNDECIDED
  /\ currentVersion = NullVersion
  /\ nextVersion = ""

InitApply ==
  /\ applyPc = "start"
  /\ dryRun \in BOOLEAN
  /\ prereleaseOpt \in PrereleaseOptions
  /\ prerelease = NoValue
  /\ allReleases = NoValue
  /\ intentRecords \in IntentRecordStates
  /\ diskBefore = intentRecords
  /\ report = NoReport
  /\ reportErrors = 0
  /\ applyExit = "pending"
  /\ workspace = "unset"
  /\ calls = <<>>
  /\ thrown = "none"
  /\ CheckIdle
  /\ RelIdle
  /\ UndecidedIdle

\* lines 44-50: find the configuration, the project and the cache; throw
\* when the current directory belongs to no workspace
ApplyFindProject ==
  /\ applyPc = "start"
  /\ calls' = calls \o <<Call("Configuration.find", NoReport),
                         Call("Project.find", NoReport),
                         Call("Cache.find", NoReport)>>
  /\ \E found \in {"null", "workspace"} :
       /\ workspace' = found
       /\ IF found = "null"
            THEN thrown' = "WorkspaceRequiredError" /\ applyPc' = "threw"
            ELSE thrown' = thrown /\ applyPc' = "restore"
  /\ UNCHANGED <<dryRun, prereleaseOpt, prerelease, allReleases, intentRecords,
                 diskBefore, report, reportErrors, applyExit, checkVars, relVars, undecidedVars>>

\* lines 52-54
ApplyRestoreInstallState ==
  /\ applyPc = "restore"
  /\ calls' = Append(calls, Call("restoreInstallState", NoReport))
  /\ applyPc' = "report"
  /\ UNCHANGED <<workspace, dryRun, prereleaseOpt, prerelease, allReleases, intentRecords,
                 diskBefore, report, reportErrors, applyExit, thrown, checkVars,
                 relVars, undecidedVars>>

\* lines 56-63: StreamReport.start runs the callback with a fresh report; the
\* callback first works out the prerelease identifier
ApplyStartReport ==
  /\ applyPc = "report"
  /\ \E r \in Reports :
       /\ report' = r
       /\ calls' = Append(calls, Call("StreamReport.start", r))
  /\ prerelease' = PrereleaseIdentifier(prereleaseOpt)
  /\ applyPc' = "resolve"
  /\ UNCHANGED <<workspace, dryRun, prereleaseOpt, allReleases, intentRecords, diskBefore,
                 reportErrors, applyExit, thrown, checkVars, relVars, undecidedVars>>

\* lines 65-67: an intent record that does not parse makes the call throw;
\* StreamReport.start records the exception and finalizes the report
ApplyResolveVersionFiles ==
  /\ applyPc = "resolve"
  /\ \E ok \in BOOLEAN :
       IF ok
         THEN /\ calls' = Append(calls, Call("resolveVersionFiles", NoReport))
              /\ allReleases' = resolveVersionFiles(intentRecords, prerelease)
              /\ applyPc' = "resolved"
              /\ reportErrors' = reportErrors
         ELSE /\ calls' = Append(calls, CallThrew("resolveVersionFiles", NoReport))
              /\ allReleases' = allReleases
              /\ applyPc' = "finalize"
              /\ reportErrors' = reportErrors + 1
  /\ UNCHANGED <<workspace, dryRun, prereleaseOpt, prerelease, intentRecords, diskBefore,
                 report, applyExit, thrown, checkVars, relVars, undecidedVars>>

\* the `return` of line 72 left out: the callback carries on
ApplyNothingToDo_NoReturn ==
  /\ applyPc = "resolved"
  /\ Cardinality(DOMAIN allReleases) = 0
  /\ calls' = calls \o <<Call("reportWarning", report), Call("applyReleases", report)>>
  /\ applyPc' = "applied"
  /\ UNCHANGED <<workspace, dryRun, prereleaseOpt, prerelease, allReleases, intentRecords,
                 diskBefore, report, reportErrors, applyExit, thrown, checkVars,
                 relVars, undecidedVars>>

\* lines 69-73
ApplyNothingToDo ==
  /\ applyPc = "resolved"
  /\ Cardinality(DOMAIN allReleases) = 0
  /\ calls' = Append(calls, Call("reportWarning", report))
  /\ applyPc' = "finalize"
  /\ UNCHANGED <<workspace, dryRun, prereleaseOpt, prerelease, allReleases, intentRecords,
                 diskBefore, report, reportErrors, applyExit, thrown, checkVars,
                 relVars, undecidedVars>>

\* the error of applyReleases caught and only recorded: the callback carries on
ApplyApplyReleases_SwallowsError ==
  /\ applyPc = "resolved"
  /\ Cardinality(DOMAIN allReleases) # 0
  /\ \E ok \in BOOLEAN :
       IF ok
         THEN /\ calls' = Append(calls, Call("applyReleases", report))
              /\ reportErrors' = reportErrors
         ELSE /\ calls' = Append(calls, CallThrew("applyReleases", report))
              /\ reportErrors' = reportErrors + 1
  /\ applyPc' = "applied"
  /\ UNCHANGED <<workspace, dryRun, prereleaseOpt, prerelease, allReleases, intentRecords,
                 diskBefore, report, applyExit, thrown, checkVars, relVars, undecidedVars>>

\* line 75: applyReleases validates every computed version and throws when
\* one of them is not valid
ApplyApplyReleases ==
  /\ applyPc = "resolved"
  /\ Cardinality(DOMAIN allReleases) # 0
  /\ \E ok \in BOOLEAN :
       IF ok
         THEN /\ calls' = Append(calls, Call("applyReleases", report))
              /\ applyPc' = "applied"
              /\ reportErrors' = reportErrors
         ELSE /\ calls' = Append(calls, CallThrew("applyReleases", report))
              /\ applyPc' = "finalize"
              /\ reportErrors' = reportErrors + 1
  /\ UNCHANGED <<workspace, dryRun, prereleaseOpt, prerelease, allReleases, intentRecords,
                 diskBefore, report, applyExit, thrown, checkVars, relVars, undecidedVars>>

\* the dryRun test of line 77 guarding only the clearing of the records
ApplyDryRunEnd_StillInstalls ==
  /\ applyPc = "applied"
  /\ dryRun
  /\ applyPc' = "install"
  /\ UNCHANGED <<workspace, dryRun, prereleaseOpt, prerelease, allReleases, intentRecords,
                 diskBefore, report, reportErrors, applyExit, calls, thrown,
                 checkVars, relVars, undecidedVars>>

\* line 77, dryRun set: the callback is over
ApplyDryRunEnd ==
  /\ applyPc = "applied"
  /\ dryRun
  /\ applyPc' = "finalize"
  /\ UNCHANGED <<workspace, dryRun, prereleaseOpt, prerelease, allReleases, intentRecords,
                 diskBefore, report, reportErrors, applyExit, calls, thrown,
                 checkVars, relVars, undecidedVars>>

\* lines 77-80, !dryRun and !prerelease: the intent records are deleted
ApplyClearVersionFiles ==
  /\ applyPc = "applied"
  /\ ~dryRun
  /\ NotPrerelease(prerelease)
  /\ \E ok \in BOOLEAN :
       IF ok
         THEN /\ calls' = Append(calls, Call("clearVersionFiles", NoReport))
              /\ intentRecords' = EmptyMap
              /\ applyPc' = "install"
              /\ reportErrors' = reportErrors
         ELSE /\ calls' = Append(calls, CallThrew("clearVersionFiles", NoReport))
              /\ intentRecords' \in PartiallyCleared(intentRecords)
              /\ applyPc' = "finalize"
              /\ reportErrors' = reportErrors + 1
  /\ UNCHANGED <<workspace, dryRun, prereleaseOpt, prerelease, allReleases, diskBefore,
                 report, applyExit, thrown, checkVars, relVars, undecidedVars>>

\* the !prerelease test of line 78 left out: the records are cleared anyway
ApplyKeepVersionFiles_Clears ==
  /\ applyPc = "applied"
  /\ ~dryRun
  /\ ~NotPrerelease(prerelease)
  /\ calls' = Append(calls, Call("clearVersionFiles", NoReport))
  /\ intentRecords' = EmptyMap
  /\ applyPc' = "install"
  /\ UNCHANGED <<workspace, dryRun, prereleaseOpt, prerelease, allReleases,
                 diskBefore, report, reportErrors, applyExit, thrown,
                 checkVars, relVars, undecidedVars>>

\* lines 77-80, !dryRun and a prerelease identifier: the records are kept
ApplyKeepVersionFiles ==
  /\ applyPc = "applied"
  /\ ~dryRun
  /\ ~NotPrerelease(prerelease)
  /\ applyPc' = "install"
  /\ UNCHANGED <<workspace, dryRun, prereleaseOpt, prerelease, allReleases, intentRecords,
                 diskBefore, report, reportErrors, applyExit, calls, thrown,
                 checkVars, relVars, undecidedVars>>

\* lines 82-84
ApplyInstall ==
  /\ applyPc = "install"
  /\ \E ok \in BOOLEAN :
       IF ok
         THEN /\ calls' = calls \o <<Call("reportSeparator", report),
                                     Call("install", report)>>
              /\ reportErrors' = reportErrors
         ELSE /\ calls' = calls \o <<Call("reportSeparator", report),
                                     CallThrew("install", report)>>
              /\ reportErrors' = reportErrors + 1
  /\ applyPc' = "finalize"
  /\ UNCHANGED <<workspace, dryRun, prereleaseOpt, prerelease, allReleases, intentRecords,
                 diskBefore, report, applyExit, thrown, checkVars, relVars, undecidedVars>>

\* line 89: the exit code of the report
ApplyReturn ==
  /\ applyPc = "finalize"
  /\ applyExit' = IF reportErrors > 0 THEN "1" ELSE "0"
  /\ applyPc' = "done"
  /\ UNCHANGED <<workspace, dryRun, prereleaseOpt, prerelease, allReleases, intentRecords,
                 diskBefore, report, reportErrors, calls, thrown, checkVars,
                 relVars, undecidedVars>>

NextApply ==
  \/ ApplyFindProject
  \/ ApplyRestoreInstallState
  \/ ApplyStartReport
  \/ ApplyResolveVersionFiles
  \/ ApplyNothingToDo
  \/ ApplyApplyReleases
  \/ ApplyDryRunEnd
  \/ ApplyClearVersionFiles
  \/ ApplyKeepVersionFiles
  \/ ApplyInstall
  \/ ApplyReturn

SpecApply == InitApply /\ [][NextApply]_vars

----------------------------------------------------------------------------
\* The workspace model and versionUtils, as far as the check command uses them

\* project.workspaces with their dependencies on one another: every graph
\* in which no workspace depends on itself
Graphs == {g \in [Workspaces -> SUBSET Workspaces] : \A w \in Workspaces : w \notin g[w]}

\* decisions a loaded VersionFile can carry
LoadedDecisions == {UNDECIDED, PATCH}

\* versionFile.releaseRoots, up to a renaming of the workspaces
RootSets == {{}, {"A"}, {"A", "B"}, {"A", "B", "C"}}

\* Renaming the workspaces changes nothing but their names, so of the graphs
\* that differ only by a renaming that keeps the release roots in place, the
\* check command is run on one: the graph whose edge set has the least code.
Renamings(roots) ==
  {p \in [Workspaces -> Workspaces] :
     /\ \A w \in Workspaces : \E v \in Workspaces : p[v] = w
     /\ \A r \in roots : p[r] \in roots}

Renamed(g, p) == [w \in Workspaces |-> {p[d] : d \in g[CHOOSE v \in Workspaces : p[v] = w]}]

Index(w) == IF w = "A" THEN 0 ELSE IF w = "B" THEN 1 ELSE 2

RECURSIVE SumOf(_)
SumOf(S) == IF S = {} THEN 0 ELSE LET x == CHOOSE y \in S : TRUE IN x + SumOf(S \ {x})

EdgeCode(g) ==
  SumOf(UNION {{2 ^ (Cardinality(Workspaces) * Index(w) + Index(d)) : d \in g[w]} :
                 w \in Workspaces})

IsRepresentative(g, roots) ==
  \A p \in Renamings(roots) : EdgeCode(g) <= EdgeCode(Renamed(g, p))

\* what openVersionFile can return: null, or a VersionFile
NullVersionFile ==
  [null |-> TRUE, rootIsNull |-> TRUE, releaseRoots |-> {}, releases |-> EmptyMap]

VersionFiles ==
  {[null |-> FALSE, rootIsNull |-> n, releaseRoots |-> rr, releases |-> m] :
     n \in BOOLEAN, rr \in RootSets,
     m \in {x \in ReleasesOver(LoadedDecisions) : Cardinality(DOMAIN x) <= MaxLoaded}}

\* getUndecidedDependentWorkspaces({project, releases}): the workspaces with no
\* entry in `releases` that depend on a key of `releases` whose decision is
\* not DECLINE
getUndecidedDependentWorkspaces(deps, rel) ==
  {w \in Workspaces :
     /\ w \notin DOMAIN rel
     /\ \E d \in deps[w] : d \in DOMAIN rel /\ rel[d] # DECLINE}

----------------------------------------------------------------------------
\* getRelevancy

\* the filter of lines 306-308 left out: every decision starts out relevant
RelevancyStart_Unfiltered(roots, rel) ==
  [relevantWorkspaces |-> roots, relevantReleases |-> rel]

\* new Set() in place of the copy of the release roots of line 304
RelevancyStart_NoRoots(roots, rel) ==
  [relevantWorkspaces |-> {}, relevantReleases |-> EmptyMap]

\* lines 304-309: the release roots and their own decisions
RelevancyStart(roots, rel) ==
  [relevantWorkspaces |-> roots, relevantReleases |-> Restrict(rel, roots)]

\* the has() test of line 321 left out: every listed dependent counts as new
NewDependents_NotFiltered(deps, st) ==
  getUndecidedDependentWorkspaces(deps, st.relevantReleases)

\* lines 312-321: the undecided dependents the pass has not seen yet
NewDependents(deps, st) ==
  getUndecidedDependentWorkspaces(deps, st.relevantReleases) \ st.relevantWorkspaces

\* the test of line 327 left out: a dependent without a decision is recorded
\* as UNDECIDED, and so implicates its own dependents
RelevancyPass_RecordsUndecided(deps, rel, st) ==
  LET new == NewDependents(deps, st)
  IN [relevantWorkspaces |-> st.relevantWorkspaces \cup new,
      relevantReleases |->
        [w \in (DOMAIN st.relevantReleases) \cup new |->
           IF w \in DOMAIN st.relevantReleases THEN st.relevantReleases[w]
           ELSE IF w \in DOMAIN rel THEN rel[w] ELSE UNDECIDED]]

\* lines 320-331: one iteration of the while(true) loop
RelevancyPass(deps, rel, st) ==
  LET new == NewDependents(deps, st)
      decided == new \cap DOMAIN rel
  IN [relevantWorkspaces |-> st.relevantWorkspaces \cup new,
      relevantReleases |->
        [w \in (DOMAIN st.relevantReleases) \cup decided |->
           IF w \in DOMAIN st.relevantReleases THEN st.relevantReleases[w] ELSE rel[w]]]

\* lines 317, 334-336
hasNewDependents(deps, st) == NewDependents(deps, st) # {}

\* lines 311-337: the loop, run to its exit
RECURSIVE RelevancyLoop(_, _, _)
RelevancyLoop(deps, rel, st) ==
  IF hasNewDependents(deps, st)
    THEN RelevancyLoop(deps, rel, RelevancyPass(deps, rel, st))
    ELSE st

\* lines 295-343
getRelevancy(rel) ==
  RelevancyLoop(project, rel, RelevancyStart(versionFile.releaseRoots, rel))

\* ---- the same computation, one loop iteration per step -----------------

InitRelevancy ==
  /\ applyPc = "idle"
  /\ dryRun = FALSE
  /\ prereleaseOpt = OptAbsent
  /\ prerelease = NoValue
  /\ allReleases = NoValue
  /\ intentRecords = EmptyMap
  /\ diskBefore = EmptyMap
  /\ report = NoReport
  /\ reportErrors = 0
  /\ applyExit = "pending"
  /\ workspace = "unset"
  /\ calls = <<>>
  /\ thrown = "none"
  /\ checkPc = "form"
  /\ project \in Graphs
  /\ \E rr \in SUBSET Workspaces :
       versionFile = [null |-> FALSE, rootIsNull |-> FALSE, releaseRoots |-> rr,
                      releases |-> EmptyMap]
  /\ loadedReleases = EmptyMap
  /\ releases \in ReleasesOver({UNDECIDED, DECLINE, PATCH, MINOR})
  /\ focus = 0
  /\ decisions = Pending
  /\ checkExit = "pending"
  /\ RelIdle
  /\ UndecidedIdle

\* lines 304-309
RelevancyEnter ==
  /\ relPc = "idle"
  /\ relevantWorkspaces' = RelevancyStart(versionFile.releaseRoots, releases).relevantWorkspaces
  /\ relevantReleases' = RelevancyStart(versionFile.releaseRoots, releases).relevantReleases
  /\ relPc' = "loop"
  /\ UNCHANGED <<workspace, relPasses, relAdded, applyVars, calls, thrown, checkVars, undecidedVars>>

\* lines 311-337, one iteration
RelevancyIterate ==
  /\ relPc = "loop"
  /\ LET st == [relevantWorkspaces |-> relevantWorkspaces,
                relevantReleases |-> relevantReleases]
         next == RelevancyPass(project, releases, st)
     IN /\ relevantWorkspaces' = next.relevantWorkspaces
        /\ relevantReleases' = next.relevantReleases
        /\ relAdded' = Append(relAdded, next.relevantWorkspaces \ relevantWorkspaces)
        /\ relPc' = IF hasNewDependents(project, st) THEN "loop" ELSE "done"
  /\ relPasses' = relPasses + 1
  /\ UNCHANGED <<workspace, applyVars, calls, thrown, checkVars, undecidedVars>>

NextRelevancy ==
  \/ RelevancyEnter
  \/ RelevancyIterate

SpecRelevancy == InitRelevancy /\ [][NextRelevancy]_vars

\* the loop is pure in-memory computation with no suspension point: once
\* entered it keeps running
SpecRelevancyFair == SpecRelevancy /\ WF_vars(NextRelevancy)

----------------------------------------------------------------------------
\* The interactive form (App, useReleases)

\* JavaScript's %: the result takes the sign of the dividend
JsRem(a, n) == IF a >= 0 THEN a % n ELSE -((-a) % n)

\* FocusRequest
BEFORE == "before"
AFTER == "after"

\* lines 400-405
dependentWorkspaces ==
  getRelevancy(releases).relevantWorkspaces \ versionFile.releaseRoots

\* line 461: the list of release roots takes the keyboard input
RootsActive == versionFile.releaseRoots # {} /\ JsRem(focus, 2) = 0

\* lines 474, 497: the list of dependents, rendered only when there are some
DependentsActive == dependentWorkspaces # {} /\ JsRem(focus, 2) = 1

\* lines 461-466, 497-502: the workspaces whose decision the keyboard can
\* change: those of the list that has the focus
Editable(ws) ==
  \/ ws \in versionFile.releaseRoots /\ RootsActive
  \/ ws \in dependentWorkspaces /\ DependentsActive

\* getRelevancy of line 361 left out: the edited copy is stored as it is
setWorkspaceRelease_NoPruning(ws, decision) ==
  IF decision # UNDECIDED
    THEN MapSet(releases, ws, decision)
    ELSE MapDelete(releases, ws)

\* the UNDECIDED test of line 355 left out: every choice is set in the copy
setWorkspaceRelease_StoresUndecided(ws, decision) ==
  getRelevancy(MapSet(releases, ws, decision)).relevantReleases

\* lines 351-366: the map setWorkspaceRelease hands to setReleases
setWorkspaceRelease(ws, decision) ==
  LET copy == IF decision # UNDECIDED
                THEN MapSet(releases, ws, decision)
                ELSE MapDelete(releases, ws)
  IN getRelevancy(copy).relevantReleases

----------------------------------------------------------------------------
\* VersionCheckCommand.executeInteractive

ApplyIdle ==
  /\ applyPc = "idle"
  /\ dryRun = FALSE
  /\ prereleaseOpt = OptAbsent
  /\ prerelease = NoValue
  /\ allReleases = NoValue
  /\ intentRecords = EmptyMap
  /\ diskBefore = EmptyMap
  /\ report = NoReport
  /\ reportErrors = 0
  /\ applyExit = "pending"

InitCheck ==
  /\ ApplyIdle
  /\ workspace = "unset"
  /\ calls = <<>>
  /\ thrown = "none"
  /\ checkPc = "start"
  /\ project \in Graphs
  /\ versionFile = NoValue
  /\ loadedReleases = EmptyMap
  /\ releases = EmptyMap
  /\ focus = 0
  /\ decisions = Pending
  /\ checkExit = "pending"
  /\ RelIdle
  /\ UndecidedIdle

\* restoreInstallState moved ahead of the workspace test of lines 142-144
CheckFindProject_RestoresFirst ==
  /\ checkPc = "start"
  /\ calls' = calls \o <<Call("checkRequirements", NoReport),
                         Call("Configuration.find", NoReport),
                         Call("Project.find", NoReport),
                         Call("restoreInstallState", NoReport)>>
  /\ \E found \in {"null", "workspace"} :
       /\ workspace' = found
       /\ IF found = "null"
            THEN thrown' = "WorkspaceRequiredError" /\ checkPc' = "threw"
            ELSE thrown' = thrown /\ checkPc' = "open"
  /\ UNCHANGED <<project, versionFile, loadedReleases, releases, focus,
                 decisions, checkExit, applyVars, relVars, undecidedVars>>

\* lines 129-144
CheckFindProject ==
  /\ checkPc = "start"
  /\ calls' = calls \o <<Call("checkRequirements", NoReport),
                         Call("Configuration.find", NoReport),
                         Call("Project.find", NoReport)>>
  /\ \E found \in {"null", "workspace"} :
       /\ workspace' = found
       /\ IF found = "null"
            THEN thrown' = "WorkspaceRequiredError" /\ checkPc' = "threw"
            ELSE thrown' = thrown /\ checkPc' = "restore"
  /\ UNCHANGED <<project, versionFile, loadedReleases, releases, focus,
                 decisions, checkExit, applyVars, relVars, undecidedVars>>

\* line 146
CheckRestoreInstallState ==
  /\ checkPc = "restore"
  /\ calls' = Append(calls, Call("restoreInstallState", NoReport))
  /\ checkPc' = "open"
  /\ UNCHANGED <<workspace, project, versionFile, loadedReleases, releases, focus,
                 decisions, checkExit, thrown, applyVars, relVars, undecidedVars>>

\* lines 148-156
CheckOpenVersionFile ==
  /\ checkPc = "open"
  /\ calls' = Append(calls, Call("openVersionFile", NoReport))
  /\ \E vf \in VersionFiles \cup {NullVersionFile} :
       /\ IsRepresentative(project, vf.releaseRoots)
       /\ versionFile' = vf
       /\ loadedReleases' = vf.releases
       /\ IF vf.null \/ Cardinality(vf.releaseRoots) = 0
            THEN checkExit' = "0" /\ checkPc' = "done" /\ thrown' = thrown
            ELSE IF vf.rootIsNull
              THEN checkExit' = checkExit /\ checkPc' = "threw" /\ thrown' = "UsageError"
              ELSE checkExit' = checkExit /\ checkPc' = "render" /\ thrown' = thrown
  /\ UNCHANGED <<workspace, project, releases, focus, decisions, applyVars, relVars, undecidedVars>>

\* lines 514-522, 349, 407: renderForm mounts App; useReleases starts from a
\* copy of versionFile.releases, the focus from 0
CheckRenderForm ==
  /\ checkPc = "render"
  /\ calls' = Append(calls, Call("renderForm", NoReport))
  /\ releases' = versionFile.releases
  /\ focus' = 0
  /\ checkPc' = "form"
  /\ UNCHANGED <<workspace, project, versionFile, loadedReleases, decisions, checkExit,
                 thrown, applyVars, relVars, undecidedVars>>

\* useState(versionFile.releases) in place of the copy of line 349, with the
\* edits made on that one map: the loaded VersionFile changes with the form
FormSetWorkspaceRelease_WriteThrough(ws, decision) ==
  /\ checkPc = "form"
  /\ Editable(ws)
  /\ releases' = setWorkspaceRelease(ws, decision)
  /\ versionFile' = [versionFile EXCEPT !.releases = releases']
  /\ UNCHANGED <<workspace, checkPc, project, loadedReleases, focus, decisions,
                 checkExit, calls, thrown, applyVars, relVars, undecidedVars>>

\* lines 351-366, 466, 502: left/right on a workspace of the list that has
\* the focus
FormSetWorkspaceRelease(ws, decision) ==
  /\ checkPc = "form"
  /\ Editable(ws)
  /\ releases' = setWorkspaceRelease(ws, decision)
  /\ UNCHANGED <<workspace, checkPc, project, versionFile, loadedReleases, focus, decisions,
                 checkExit, calls, thrown, applyVars, relVars, undecidedVars>>

\* lines 409-427: a focus request from the list that has the focus
FormFocusRequest(request) ==
  /\ checkPc = "form"
  /\ RootsActive \/ DependentsActive
  /\ focus' = IF request = BEFORE THEN focus - 1 ELSE focus + 1
  /\ focus' >= -MaxFocus /\ focus' <= MaxFocus
  /\ UNCHANGED <<workspace, checkPc, project, versionFile, loadedReleases, releases,
                 decisions, checkExit, calls, thrown, applyVars, relVars, undecidedVars>>

\* ctrl+c resolves the form with undefined; lines 524-526. The form is
\* unmounted: `releases` keeps what was on screen, the focus is gone
CheckAborted ==
  /\ checkPc = "form"
  /\ decisions' = Undefined
  /\ focus' = 0
  /\ checkExit' = "1"
  /\ checkPc' = "done"
  /\ UNCHANGED <<workspace, project, versionFile, loadedReleases, releases,
                 calls, thrown, applyVars, relVars, undecidedVars>>

\* the clear() of line 528 left out: the decisions are set over the old entries
writeDecisions_NoClear(vfReleases, D) ==
  [w \in (DOMAIN vfReleases) \cup (DOMAIN D) |->
     IF w \in DOMAIN D THEN D[w] ELSE vfReleases[w]]

\* lines 528-532: versionFile.releases.clear(), then one set per entry of
\* the decisions; the decisions are a Map of their own (lines 349, 353, 362)
writeDecisions(vfReleases, D) ==
  LET cleared == EmptyMap
  IN [w \in (DOMAIN cleared) \cup (DOMAIN D) |->
        IF w \in DOMAIN D THEN D[w] ELSE cleared[w]]

\* line 398: enter resolves the form with the current releases; lines 524-536.
\* The form is unmounted: `releases` keeps what was submitted, the focus is gone
CheckSave ==
  /\ checkPc = "form"
  /\ decisions' = Finalized(releases)
  /\ focus' = 0
  /\ versionFile' = [versionFile EXCEPT
                       !.releases = writeDecisions(versionFile.releases, decisions'.value)]
  /\ calls' = Append(calls, Call("saveAll", NoReport))
  /\ checkExit' = "undefined"
  /\ checkPc' = "done"
  /\ UNCHANGED <<workspace, project, loadedReleases, releases, thrown,
                 applyVars, relVars, undecidedVars>>

NextCheck ==
  \/ CheckFindProject
  \/ CheckRestoreInstallState
  \/ CheckOpenVersionFile
  \/ CheckRenderForm
  \/ \E w \in {x \in Workspaces : checkPc = "form" /\ Editable(x)},
          d \in Range(strategies) : FormSetWorkspaceRelease(w, d)
  \/ \E r \in {BEFORE, AFTER} : FormFocusRequest(r)
  \/ CheckAborted
  \/ CheckSave

SpecCheck == InitCheck /\ [][NextCheck]_vars

----------------------------------------------------------------------------
\* The Undecided entry of the form: one workspace, its decision, the version
\* it is shown to move to

InitUndecided ==
  /\ ApplyIdle
  /\ workspace = "unset"
  /\ calls = <<>>
  /\ thrown = "none"
  /\ CheckIdle
  /\ RelIdle
  /\ undecidedPc = "render"
  /\ manifest \in Manifests
  /\ undecidedDecision \in Decisions
  /\ currentVersion = NullVersion
  /\ nextVersion = ""

\* lines 224-266: one render of the entry
UndecidedRender ==
  /\ undecidedPc = "render"
  /\ currentVersion' = IF manifest.stableVersion.null
                         THEN manifest.version ELSE manifest.stableVersion
  /\ IF currentVersion'.null
       THEN /\ thrown' = "Assertion failed: The version should have been set"
            /\ undecidedPc' = "threw"
            /\ nextVersion' = nextVersion
       ELSE IF semverPrerelease(currentVersion')
         THEN /\ thrown' = "Assertion failed: Prerelease identifiers shouldn't be found"
              /\ undecidedPc' = "threw"
              /\ nextVersion' = nextVersion
         ELSE /\ thrown' = thrown
              /\ undecidedPc' = "shown"
              /\ nextVersion' = renderNextVersion(currentVersion', undecidedDecision)
  /\ UNCHANGED <<manifest, undecidedDecision, workspace, calls, applyVars, checkVars,
                 relVars>>

\* lines 247-253: the left / right keys pick the neighbouring strategy and
\* the entry is rendered again with it
UndecidedListInput(key) ==
  /\ undecidedPc = "shown"
  /\ undecidedDecision' = useListInput(undecidedDecision, key)
  /\ undecidedPc' = "render"
  /\ UNCHANGED <<manifest, currentVersion, nextVersion, workspace, calls, thrown,
                 applyVars, checkVars, relVars>>

NextUndecided ==
  \/ UndecidedRender
  \/ \E key \in {"left", "right"} : UndecidedListInput(key)

SpecUndecided == InitUndecided /\ [][NextUndecided]_vars

----------------------------------------------------------------------------
\* Either command, from its start

Init == InitApply \/ InitCheck

Next == NextApply \/ NextCheck

Spec == Init /\ [][Next]_vars

----------------------------------------------------------------------------
\* Reading the log of calls

Called(op) == \E i \in DOMAIN calls : calls[i].op = op
Count(op) == Cardinality({i \in DOMAIN calls : calls[i].op = op})
Returned(op) == \E i \in DOMAIN calls : calls[i].op = op /\ ~calls[i].threw
Threw(op) == \E i \in DOMAIN calls : calls[i].op = op /\ calls[i].threw

\* resolveVersionFiles has returned a map
Resolved == allReleases # NoValue
PrereleaseActive == prerelease # NoValue /\ ~prerelease.null

----------------------------------------------------------------------------
\* The apply command

\* C1: clearVersionFiles is invoked only in runs where --dry-run is not set
\* and the prerelease identifier is null; under --dry-run, and under an active
\* prerelease identifier, the on-disk intent records stay exactly as they were
\* when the run began.
C1_ClearOnlyOnRealRelease ==
  /\ Called("clearVersionFiles") => (~dryRun /\ prerelease = Null)
  /\ (dryRun \/ PrereleaseActive) => intentRecords = diskBefore

\* a finished prerelease run that applied and installed, the records still there
C1_Witness ==
  /\ applyPc = "done"
  /\ ~dryRun
  /\ PrereleaseActive
  /\ Returned("applyReleases")
  /\ Called("install")
  /\ DOMAIN diskBefore # {}
  /\ intentRecords = diskBefore

\* C5: when resolveVersionFiles returns an empty map the run reports a warning
\* and ends with exit code 0; applyReleases, clearVersionFiles and
\* project.install are never invoked and the intent records are untouched,
\* whatever --dry-run and --prerelease are.
C5_NothingToDo ==
  (Resolved /\ DOMAIN allReleases = {}) =>
    /\ ~Called("applyReleases")
    /\ ~Called("clearVersionFiles")
    /\ ~Called("install")
    /\ intentRecords = diskBefore
    /\ applyPc \in {"finalize", "done"} => Called("reportWarning")
    /\ applyPc = "done" => applyExit = "0"

\* a finished run with nothing to do, neither dry-run nor prerelease
C5_Witness ==
  /\ applyPc = "done"
  /\ Resolved
  /\ DOMAIN allReleases = {}
  /\ ~dryRun
  /\ prerelease = Null
  /\ Called("reportWarning")
  /\ applyExit = "0"

\* a run whose releases map came back non-empty
NonEmptyRun == Resolved /\ DOMAIN allReleases # {}

\* every install call comes after an applyReleases call that returned and was
\* given the same report, and after every clearVersionFiles call
InstallComesLast ==
  \A i \in DOMAIN calls :
    calls[i].op = "install" =>
      /\ \E j \in 1..(i - 1) :
           /\ calls[j].op = "applyReleases"
           /\ ~calls[j].threw
           /\ calls[j].report = calls[i].report
      /\ \A k \in DOMAIN calls :
           calls[k].op = "clearVersionFiles" => (k < i /\ ~calls[k].threw)

\* C6 as stated: in a run with a non-empty releases map, project.install is
\* invoked exactly once if and only if --dry-run is not set, after
\* applyReleases and clearVersionFiles, with the report of applyReleases.
C6_AsStated ==
  (applyPc = "done" /\ NonEmptyRun) =>
    /\ (Count("install") = 1) <=> ~dryRun
    /\ InstallComesLast

\* C6, amended: in a run with a non-empty releases map, project.install is
\* invoked exactly once if and only if --dry-run is not set, applyReleases has
\* returned without error and clearVersionFiles, when invoked, has completed
\* without error; it is never invoked twice, never in a dry-run, always after
\* applyReleases and clearVersionFiles, and with the report of applyReleases.
C6_InstallerOrdering ==
  /\ Count("install") <= 1
  /\ dryRun => ~Called("install")
  /\ InstallComesLast
  /\ (applyPc = "done" /\ NonEmptyRun) =>
       ((Count("install") = 1) <=>
          (~dryRun /\ Returned("applyReleases") /\ ~Threw("clearVersionFiles")))

\* a finished real release: applied, cleared, then installed
C6_Witness ==
  /\ applyPc = "done"
  /\ NonEmptyRun
  /\ ~dryRun
  /\ Returned("clearVersionFiles")
  /\ Count("install") = 1
  /\ calls[Len(calls)].op = "install"

----------------------------------------------------------------------------
\* getRelevancy

\* B depends on A, C depends on B
Chain ==
  [w \in Workspaces |-> IF w = "A" THEN {} ELSE IF w = "B" THEN {"A"} ELSE {"B"}]

ChainFromA == project = Chain /\ versionFile.releaseRoots = {"A"}

Bumped(w, rel) == w \in DOMAIN rel /\ rel[w] # DECLINE

\* a workspace not holding DECLINE (it may hold no decision at all)
NotDeclined(w, rel) == w \notin DOMAIN rel \/ rel[w] # DECLINE

\* the workspaces of `ok` from which a dependency path leads to a release
\* root, every workspace of the path (its two ends included) being in `ok`
RECURSIVE PathClosure(_, _)
PathClosure(T, ok) ==
  LET more == {x \in ok \ T : project[x] \cap T # {}}
  IN IF more = {} THEN T ELSE PathClosure(T \cup more, ok)

OnPathToRoot(ok) == PathClosure(versionFile.releaseRoots \cap ok, ok)

\* w depends on a workspace from which such a path leads to a release root
HasPathToRoot(w, ok) == project[w] \cap OnPathToRoot(ok) # {}

NotDeclinedSet(rel) == {w \in Workspaces : NotDeclined(w, rel)}
BumpedSet(rel) == {w \in Workspaces : Bumped(w, rel)}

\* C7: a workspace that is no release root and whose every dependency path to
\* a release root passes through a workspace holding DECLINE is not in the
\* relevant set; a workspace that depends directly on a relevant workspace
\* holding a decision other than DECLINE is in the relevant set.
C7_NoCrossingDeclined ==
  relPc = "done" =>
    /\ \A w \in Workspaces \ versionFile.releaseRoots :
         ~HasPathToRoot(w, NotDeclinedSet(releases)) => w \notin relevantWorkspaces
    /\ \A w \in Workspaces :
         \A x \in project[w] :
           (x \in relevantWorkspaces /\ Bumped(x, releases)) => w \in relevantWorkspaces

\* root A declined, B released and depending on A, C depending on B: neither B
\* nor C is relevant
C7_Witness ==
  /\ relPc = "done"
  /\ ChainFromA
  /\ DOMAIN releases = {"A", "B"}
  /\ releases["A"] = DECLINE
  /\ releases["B"] = PATCH
  /\ relevantWorkspaces = {"A"}

\* C8: the loop of getRelevancy ends for every graph, cycles included; every
\* iteration either strictly grows relevantWorkspaces or leaves the loop, and
\* there are at most (number of workspaces + 1) iterations.
C8_Termination ==
  /\ [](relPasses <= Cardinality(Workspaces) + 1)
  /\ [][relPc = "loop" =>
          \/ relPc' = "done"
          \/ (relevantWorkspaces \subseteq relevantWorkspaces'
                /\ relevantWorkspaces' # relevantWorkspaces)]_vars
  /\ <>(relPc = "done")

\* a finished computation over a dependency cycle that took three iterations
C8_Witness ==
  /\ relPc = "done"
  /\ "A" \in project["B"]
  /\ "B" \in project["A"]
  /\ relPasses = 3
  /\ relevantWorkspaces = Workspaces

----------------------------------------------------------------------------
\* The check command

\* C3: after any setWorkspaceRelease call the stored releases hold only
\* release roots and workspaces from which a dependency path leads to a
\* release root through workspaces holding a decision other than DECLINE, and
\* the relevant set is the release roots plus the workspaces depending on
\* such a workspace. Choosing UNDECIDED removes the workspace's own entry, so
\* un-releasing root A drops dependent B's decision and B itself unless B is
\* still reached from another root or is a release root; the decision of any
\* other release root is never dropped.
C3_RelevancyPruning ==
  checkPc = "form" =>
    \A w \in {x \in Workspaces : Editable(x)}, d \in Range(strategies) :
        LET stored == setWorkspaceRelease(w, d)
            roots == versionFile.releaseRoots
            reached == {x \in Workspaces : HasPathToRoot(x, BumpedSet(stored))}
            relevant == getRelevancy(stored).relevantWorkspaces
        IN /\ \A x \in DOMAIN stored : x \in roots \/ x \in reached
           /\ relevant = roots \cup reached
           /\ d = UNDECIDED => w \notin DOMAIN stored
           /\ \A r \in (roots \cap DOMAIN releases) \ {w} :
                r \in DOMAIN stored /\ stored[r] = releases[r]
           /\ \A b \in (DOMAIN releases) \ roots :
                b \notin reached => (b \notin DOMAIN stored /\ b \notin relevant)

\* root A is not released, and the decision B: PATCH the VersionFile came
\* with has been dropped from the form's releases, and B from the relevant set
C3_Witness ==
  /\ checkPc = "form"
  /\ versionFile.releaseRoots = {"A"}
  /\ "A" \in project["B"]
  /\ loadedReleases = [w \in {"B"} |-> PATCH]
  /\ releases = EmptyMap
  /\ "B" \notin getRelevancy(releases).relevantWorkspaces

\* C4: when the form is aborted the command returns 1, versionFile.releases
\* is what openVersionFile loaded and saveAll has not been invoked, whatever
\* the user changed in the form; saveAll is invoked only once the form has
\* returned a finalized decision map.
C4_AbortPersistsNothing ==
  /\ decisions = Undefined =>
       /\ checkPc = "done"
       /\ checkExit = "1"
       /\ versionFile.releases = loadedReleases
       /\ ~Called("saveAll")
  /\ checkPc = "form" =>
       /\ versionFile.releases = loadedReleases
       /\ ~Called("saveAll")
  /\ Called("saveAll") => decisions.kind = "map"

\* an aborted session in which the user had changed the decisions
C4_Witness ==
  /\ checkPc = "done"
  /\ decisions = Undefined
  /\ checkExit = "1"
  /\ DOMAIN releases # {}
  /\ releases # loadedReleases

\* C9 as stated: with no VCS root (openVersionFile returned null, or a
\* VersionFile whose root is null) the command ends with the UsageError,
\* never with exit code 0, and neither renders the form nor saves.
C9_AsStated ==
  (checkPc \in {"done", "threw"} /\ versionFile # NoValue
     /\ (versionFile.null \/ versionFile.rootIsNull)) =>
    /\ thrown = "UsageError"
    /\ checkExit # "0"
    /\ ~Called("renderForm")
    /\ ~Called("saveAll")

----------------------------------------------------------------------------
\* Both commands

AfterWorkspaceTest ==
  {"restoreInstallState", "resolveVersionFiles", "applyReleases",
   "clearVersionFiles", "install", "openVersionFile", "renderForm", "saveAll"}

\* C10: in either command, when Project.find yields no workspace the command
\* ends with WorkspaceRequiredError, and by then none of restoreInstallState,
\* resolveVersionFiles, applyReleases, clearVersionFiles, project.install,
\* openVersionFile, renderForm, saveAll has been invoked; Project.find is not
\* called again.
C10_WorkspaceRequired ==
  /\ workspace = "null" =>
       /\ thrown = "WorkspaceRequiredError"
       /\ applyPc = "threw" \/ checkPc = "threw"
       /\ \A op \in AfterWorkspaceTest : ~Called(op)
       /\ Count("Project.find") = 1
  /\ thrown = "WorkspaceRequiredError" => workspace = "null"

\* the check command stopped by the missing workspace
C10_Witness ==
  /\ workspace = "null"
  /\ checkPc = "threw"
  /\ thrown = "WorkspaceRequiredError"
  /\ Called("Project.find")

----------------------------------------------------------------------------
\* The Undecided entry

\* the increment the semver specification prescribes for a plain version
StandardIncrement(v, d) ==
  IF d = PATCH THEN [v EXCEPT !.patch = @ + 1]
  ELSE IF d = MINOR THEN [v EXCEPT !.minor = @ + 1, !.patch = 0]
  ELSE [v EXCEPT !.major = @ + 1, !.minor = 0, !.patch = 0]

\* semver precedence of two plain versions
Precedes(a, b) ==
  \/ a.major < b.major
  \/ a.major = b.major /\ a.minor < b.minor
  \/ a.major = b.major /\ a.minor = b.minor /\ a.patch < b.patch

PlainVersions ==
  [null : {FALSE}, major : 0..(MaxPart + 1), minor : 0..(MaxPart + 1),
   patch : 0..(MaxPart + 1), prerelease : {<<>>}]

\* C11: once an entry is shown for a current version without a prerelease
\* tag, an increment decision PATCH, MINOR or MAJOR shows as next version the
\* standard semver increment of the current version (patch+1; minor+1 and
\* patch 0; major+1 and minor, patch 0), which is strictly greater than the
\* current version, and an explicit version decision shows that version itself.
C11_IncrementResult ==
  undecidedPc = "shown" /\ Len(currentVersion.prerelease) = 0 =>
    /\ undecidedDecision \in {PATCH, MINOR, MAJOR} =>
         /\ nextVersion = Format(StandardIncrement(currentVersion, undecidedDecision))
         /\ \E n \in PlainVersions :
              Format(n) = nextVersion /\ Precedes(currentVersion, n)
    /\ undecidedDecision = ExplicitVersion => nextVersion = ExplicitVersion

\* a MINOR bump of 1.0.1 shown as 1.1.0
C11_Witness ==
  /\ undecidedPc = "shown"
  /\ undecidedDecision = MINOR
  /\ currentVersion.major = 1 /\ currentVersion.minor = 0 /\ currentVersion.patch = 1
  /\ nextVersion = "1.1.0"

----------------------------------------------------------------------------
\* The prerelease identifier of an apply run

\* the callback has worked out its `prerelease` local
IdentifierChosen == prerelease # NoValue
OptionSupplied == prereleaseOpt # OptAbsent
\* a real release that got past applyReleases goes on to clear the records
NormalRelease ==
  (applyPc \in {"install", "done"} /\ ~dryRun /\ Returned("applyReleases"))
    => Called("clearVersionFiles")

----------------------------------------------------------------------------
\* Clearing the intent records after the releases were applied

\* C13: clearVersionFiles is invoked only after applyReleases has returned
\* without error; when applyReleases fails, neither clearVersionFiles nor
\* project.install is invoked and the intent records stay on disk as they were.
C13_ClearOnlyAfterApply ==
  /\ \A i \in DOMAIN calls :
       calls[i].op = "clearVersionFiles" =>
         \E j \in 1..(i - 1) : calls[j].op = "applyReleases" /\ ~calls[j].threw
  /\ Threw("applyReleases") =>
       /\ ~Called("clearVersionFiles")
       /\ ~Called("install")
       /\ intentRecords = diskBefore

\* a real release (no dry-run, no identifier) whose applyReleases failed: the
\* run is over with exit code 1 and the records are all still there
C13_Witness ==
  /\ applyPc = "done"
  /\ ~dryRun
  /\ prerelease = Null
  /\ Threw("applyReleases")
  /\ applyExit = "1"
  /\ DOMAIN diskBefore # {}
  /\ intentRecords = diskBefore

----------------------------------------------------------------------------
\* Saving the decisions of the form

\* calls that write to the project or to the version files
WriteCalls == {"saveAll", "clearVersionFiles", "applyReleases", "install"}

\* C14: when the form returned a finalized map D, versionFile.releases equals
\* D when saveAll is invoked (no entry absent from D is left, and D is still
\* what the form held when it was submitted), saveAll is invoked exactly once,
\* as the last call, and it is the only write of the check command; until then
\* versionFile.releases is as it was loaded.
C14_ConfirmationReplacesDecisions ==
  /\ decisions.kind = "map" =>
       /\ Called("saveAll")
       /\ versionFile.releases = decisions.value
       /\ decisions.value = releases
       /\ \A w \in (DOMAIN loadedReleases) \ (DOMAIN decisions.value) :
            w \notin DOMAIN versionFile.releases
       /\ Count("saveAll") = 1
       /\ calls[Len(calls)].op = "saveAll"
  /\ \A i \in DOMAIN calls : calls[i].op \in WriteCalls => calls[i].op = "saveAll"
  /\ (checkPc \in {"render", "form"} \/ decisions.kind = "undefined") =>
       /\ ~Called("saveAll")
       /\ versionFile.releases = loadedReleases

\* the submitted map holds a decision and lacks an entry the loaded file had
C14_Witness ==
  /\ checkPc = "done"
  /\ decisions.kind = "map"
  /\ Called("saveAll")
  /\ DOMAIN decisions.value # {}
  /\ (DOMAIN loadedReleases) \ (DOMAIN decisions.value) # {}

----------------------------------------------------------------------------
\* The decisions the form holds

NoUndecidedIn(m) == \A w \in DOMAIN m : m[w] # UNDECIDED

\* C15: provided the loaded versionFile.releases holds no UNDECIDED value, the
\* releases map of the form is, after any sequence of setWorkspaceRelease
\* calls, a map from workspaces to one decision each that is never UNDECIDED;
\* choosing UNDECIDED for a workspace removes its entry and choosing any other
\* decision for a relevant workspace makes that decision its entry.
C15_UndecidedNeverStored ==
  (checkPc = "form" /\ NoUndecidedIn(loadedReleases)) =>
    /\ releases \in ReleasesOver(Decisions \ {UNDECIDED})
    /\ \A w \in Workspaces : w \notin DOMAIN setWorkspaceRelease(w, UNDECIDED)
    /\ \A w \in getRelevancy(releases).relevantWorkspaces, d \in Range(strategies) :
         LET stored == setWorkspaceRelease(w, d)
         IN /\ NoUndecidedIn(stored)
            /\ d # UNDECIDED => (w \in DOMAIN stored /\ stored[w] = d)

\* a release root loaded with PATCH was set back to UNDECIDED and a dependent
\* of another bumped root was given a decision
C15_Witness ==
  /\ checkPc = "form"
  /\ NoUndecidedIn(loadedReleases)
  /\ \E r \in versionFile.releaseRoots :
       r \in DOMAIN loadedReleases /\ r \notin DOMAIN releases
  /\ \E w \in DOMAIN releases : w \notin versionFile.releaseRoots

----------------------------------------------------------------------------
\* The focus of the form

BothListsDisplayed == versionFile.releaseRoots # {} /\ dependentWorkspaces # {}

\* C16 as stated: after any sequence of focus requests, whenever the list of
\* release roots and the list of dependents are both displayed, exactly one of
\* the two is active.
C16_AsStated ==
  (checkPc = "form" /\ BothListsDisplayed) =>
    /\ RootsActive \/ DependentsActive
    /\ ~(RootsActive /\ DependentsActive)

----------------------------------------------------------------------------
\* getRelevancy as a function of the releases map

\* what the evaluation under way has built so far
RelevancyResult ==
  [relevantWorkspaces |-> relevantWorkspaces, relevantReleases |-> relevantReleases]

\* C17: an evaluation of getRelevancy(r) never changes r; from its first step
\* relevantWorkspaces contains every release root and every key of
\* relevantReleases is in relevantWorkspaces with the decision it has in r;
\* and getRelevancy applied to the relevantReleases it returned gives the same
\* relevantWorkspaces and relevantReleases again.
C17_PureAndIdempotent ==
  /\ [][releases' = releases /\ versionFile' = versionFile /\ project' = project]_vars
  /\ [](relPc # "idle" =>
          /\ versionFile.releaseRoots \subseteq relevantWorkspaces
          /\ \A w \in DOMAIN relevantReleases :
               /\ w \in relevantWorkspaces
               /\ w \in DOMAIN releases
               /\ relevantReleases[w] = releases[w])
  /\ [](relPc = "done" =>
          /\ RelevancyResult = getRelevancy(releases)
          /\ getRelevancy(relevantReleases) = RelevancyResult)

\* a finished evaluation that took more than one pass, kept the decision of a
\* dependent and dropped an entry that is not relevant
C17_Witness ==
  /\ relPc = "done"
  /\ relPasses >= 2
  /\ \E w \in DOMAIN relevantReleases : w \notin versionFile.releaseRoots
  /\ DOMAIN releases \ DOMAIN relevantReleases # {}

====
